---------------------------- MODULE Spec2Model ----------------------------
(***************************************************************************)
(* Model of backend/src/data/bars.rs: BarsRepository::load_bars and        *)
(* BarsRepository::load_series over a Parquet source, together with the    *)
(* date parsing that produces the inclusive UTC window.                    *)
(*                                                                         *)
(* Encoding of values:                                                     *)
(*   Option<T>   None is <<>>, Some(x) is <<x>>                            *)
(*   f64         a record [nan, val]; NaN is the record with nan = TRUE    *)
(*   &str date   a sequence of one-character strings                       *)
(*   Result      a record [ok, val, err]                                   *)
(***************************************************************************)
EXTENDS Integers, Sequences, FiniteSets, TLC

VARIABLES source, request, call, result, prev, accesses

vars == <<source, request, call, result, prev, accesses>>

None == <<>>
Some(x) == <<x>>
IsSome(o) == o # <<>>

F(v) == [nan |-> FALSE, val |-> v]
NaN == [nan |-> TRUE, val |-> 0]
is_nan(x) == x.nan

Ok(v) == [ok |-> TRUE, val |-> v, err |-> ""]
Err(msg) == [ok |-> FALSE, val |-> <<>>, err |-> msg]

\* Rust's i64 division truncates toward zero; \div rounds toward minus infinity.
TruncDiv(a, b) == IF a >= 0 THEN a \div b ELSE -((-a) \div b)

---------------------------------------------------------------------------
\* The indicator catalog, in its fixed order.
INDICATOR_COLUMNS ==
    << "vwap", "vwapn", "vwapd", "ema_9", "ema_14", "ema_21",
       "rsi_14_ema", "rsi_14_wilder", "atr_14" >>

\* The error messages the repository formats (the interpolated parts elided).
InvalidDateMsg == "Invalid date '{value}'. Expected YYYY-MM-DD."
NotFoundMsg == "Parquet file not found at '{path}'. Set BARS_PARQUET_PATH to override."
LoadBarsFailedMsg == "Failed to load bars from parquet: {error}"
LoadSeriesFailedMsg == "Failed to load series from parquet: {error}"

---------------------------------------------------------------------------
\* Date parsing: NaiveDate::parse_from_str(value, "%Y-%m-%d").

Digits == {"0", "1", "2", "3", "4", "5", "6", "7", "8", "9"}

DigitVal(c) ==
    CASE c = "0" -> 0 [] c = "1" -> 1 [] c = "2" -> 2 [] c = "3" -> 3
      [] c = "4" -> 4 [] c = "5" -> 5 [] c = "6" -> 6 [] c = "7" -> 7
      [] c = "8" -> 8 [] c = "9" -> 9

\* A numeric item of the format consumes the digits at pos, at least one and
\* at most max of them (%Y: 4, %m and %d: 2); acc counts and accumulates them.
RECURSIVE ScanNumber(_, _, _, _)
ScanNumber(s, pos, max, acc) ==
    IF acc.n < max /\ pos <= Len(s) /\ s[pos] \in Digits
    THEN ScanNumber(s, pos + 1, max,
                    [n |-> acc.n + 1, val |-> acc.val * 10 + DigitVal(s[pos])])
    ELSE acc

IsLeapYear(y) == (y % 4 = 0 /\ y % 100 # 0) \/ y % 400 = 0

DaysInMonth(y, m) ==
    IF m = 2 THEN (IF IsLeapYear(y) THEN 29 ELSE 28)
    ELSE IF m \in {4, 6, 9, 11} THEN 30 ELSE 31

\* Parses a YYYY-MM-DD date string into a calendar date. The number, the
\* literal '-', the number, the literal '-', the number, and nothing after
\* it; then the date must exist in the calendar.
parse_yyyy_mm_dd(value) ==
    LET zero == [n |-> 0, val |-> 0]
        y == ScanNumber(value, 1, 4, zero)
        p1 == 1 + y.n
        m == ScanNumber(value, p1 + 1, 2, zero)
        p2 == p1 + 1 + m.n
        d == ScanNumber(value, p2 + 1, 2, zero)
        p3 == p2 + 1 + d.n
    IN  IF /\ y.n >= 1
           /\ p1 <= Len(value) /\ value[p1] = "-"
           /\ m.n >= 1
           /\ p2 <= Len(value) /\ value[p2] = "-"
           /\ d.n >= 1
           /\ p3 = Len(value) + 1
           /\ m.val \in 1..12
           /\ d.val \in 1..DaysInMonth(y.val, m.val)
        THEN Ok([year |-> y.val, month |-> m.val, day |-> d.val])
        ELSE Err(InvalidDateMsg)

\* Days between 1970-01-01 and the date (proleptic Gregorian calendar).
DaysFromCivil(date) ==
    LET y == IF date.month <= 2 THEN date.year - 1 ELSE date.year
        era == y \div 400
        yoe == y - era * 400
        mp == IF date.month > 2 THEN date.month - 3 ELSE date.month + 9
        doy == (153 * mp + 2) \div 5 + date.day - 1
        doe == yoe * 365 + yoe \div 4 - yoe \div 100 + doy
    IN  era * 146097 + doe - 719468

\* date.and_hms_opt(h, m, s) as a UTC timestamp in seconds.
Timestamp(date, h, m, s) == DaysFromCivil(date) * 86400 + h * 3600 + m * 60 + s

\* The first UTC second included in the requested range.
parse_start_date(value) ==
    IF value = None THEN Ok(None)
    ELSE LET date == parse_yyyy_mm_dd(value[1])
         IN  IF date.ok THEN Ok(Some(Timestamp(date.val, 0, 0, 0))) ELSE date

\* The final UTC second included in the requested range.
parse_end_date(value) ==
    IF value = None THEN Ok(None)
    ELSE LET date == parse_yyyy_mm_dd(value[1])
         IN  IF date.ok THEN Ok(Some(Timestamp(date.val, 23, 59, 59))) ELSE date

---------------------------------------------------------------------------
\* The Parquet source and the lazy query over it.

Range(s) == {s[i] : i \in 1..Len(s)}

\* self.parquet_path.exists(), then LazyFrame::scan_parquet.
base_query(src) ==
    IF ~src.exists THEN Err(NotFoundMsg)
    ELSE Ok([columns |-> src.columns, rows |-> src.rows])

\* The data accesses base_query makes: the existence check, then the scan.
base_query_accesses(src) ==
    IF ~src.exists THEN <<"exists">> ELSE <<"exists", "scan">>

\* query.filter(col("contract").eq(lit(contract)))
ContractFilter(rows, contract) ==
    IF contract = None THEN rows
    ELSE SelectSeq(rows, LAMBDA r : r.contract = contract[1])

\* query.filter(col("timestamp").cast(Int64).gt_eq(lit(start_time * 1000)));
\* a null timestamp compares to null and the row is dropped.
StartFilter(rows, start_time) ==
    IF start_time = None THEN rows
    ELSE SelectSeq(rows, LAMBDA r : /\ IsSome(r.timestamp)
                                    /\ r.timestamp[1] >= start_time[1] * 1000)

\* Variant of EndFilter: the bound taken as the midnight after the end day.
EndFilterNextMidnight(rows, end_time) ==
    IF end_time = None THEN rows
    ELSE SelectSeq(rows, LAMBDA r : /\ IsSome(r.timestamp)
                                    /\ r.timestamp[1] <= (end_time[1] + 1) * 1000)

\* query.filter(col("timestamp").cast(Int64).lt_eq(lit(end_time * 1000)))
EndFilter(rows, end_time) ==
    IF end_time = None THEN rows
    ELSE SelectSeq(rows, LAMBDA r : /\ IsSome(r.timestamp)
                                    /\ r.timestamp[1] <= end_time[1] * 1000)

\* The rows that pass the three filters, in the source's physical order.
Filtered(rows, contract, start_time, end_time) ==
    EndFilter(StartFilter(ContractFilter(rows, contract), start_time), end_time)

\* query.select(exprs): the named columns, in the order of the expressions.
Select(rows, exprs) ==
    [columns |-> exprs,
     rows |-> [i \in 1..Len(rows) |-> [c \in Range(exprs) |-> rows[i][c]]]]

\* Ascending order of the sort key, nulls first (the default sort options).
KeyLeq(a, b) == a = None \/ (b # None /\ a[1] <= b[1])

\* Variant of SortOutcomes: the sort left out, the rows in physical order.
SortOutcomesUnsorted(rows) == {rows}

\* .sort(["timestamp"], Default::default()): the default options do not ask
\* to maintain the order of rows with equal keys, so every arrangement of the
\* rows that is ascending in the key is an outcome.
SortOutcomes(rows) ==
    LET n == Len(rows)
        perms == {p \in [1..n -> 1..n] : \A i, j \in 1..n : i # j => p[i] # p[j]}
    IN  {[i \in 1..n |-> rows[p[i]]] : p \in
            {q \in perms : \A i \in 1..n - 1 :
                KeyLeq(rows[q[i]].timestamp, rows[q[i + 1]].timestamp)}}

\* The columns the query plan reads; collect fails when the source lacks one.
PlanColumns(contract, exprs) ==
    Range(exprs) \cup {"timestamp"}
        \cup (IF contract = None THEN {} ELSE {"contract"})

\* .select(exprs).sort(["timestamp"], ..).collect(): the set of outcomes.
Collect(q, contract, start_time, end_time, exprs, failure) ==
    IF ~(PlanColumns(contract, exprs) \subseteq Range(q.columns))
    THEN {Err(failure)}
    ELSE {Ok([columns |-> exprs, rows |-> sorted]) :
            sorted \in SortOutcomes(
                Select(Filtered(q.rows, contract, start_time, end_time), exprs).rows)}

---------------------------------------------------------------------------
\* Row mapping.

BAR_COLUMNS == <<"timestamp", "open", "high", "low", "close">>

\* let select_exprs = once(col("timestamp")).chain(INDICATOR_COLUMNS..)
select_exprs == <<"timestamp">> \o INDICATOR_COLUMNS

\* for idx in 0..df.height() of map_dataframe_to_candles
RECURSIVE CandleLoop(_, _, _)
CandleLoop(rows, idx, candles) ==
    IF idx > Len(rows) THEN candles
    ELSE LET r == rows[idx]
         IN  IF r.timestamp = None THEN CandleLoop(rows, idx + 1, candles)
             ELSE IF \/ r.open = None \/ r.high = None
                     \/ r.low = None \/ r.close = None
                  THEN CandleLoop(rows, idx + 1, candles)
                  ELSE CandleLoop(rows, idx + 1, Append(candles,
                          [time |-> TruncDiv(r.timestamp[1], 1000),
                           open |-> r.open[1], high |-> r.high[1],
                           low |-> r.low[1], close |-> r.close[1]]))

\* Variant of map_dataframe_to_candles: a null price defaulted to zero
\* instead of the row being skipped.
MapCandlesDefaulting(df) ==
    Ok(CandleLoop([i \in 1..Len(df.rows) |->
                      [c \in DOMAIN df.rows[i] |->
                          IF c # "timestamp" /\ df.rows[i][c] = None
                          THEN Some(F(0)) ELSE df.rows[i][c]]], 1, <<>>))

map_dataframe_to_candles(df) ==
    IF ~(Range(BAR_COLUMNS) \subseteq Range(df.columns))
    THEN Err("Missing column")
    ELSE Ok(CandleLoop(df.rows, 1, <<>>))

\* Variant of PointLoop: the is_nan check left out.
RECURSIVE PointLoopKeepNaN(_, _, _, _)
PointLoopKeepNaN(rows, indicator, idx, points) ==
    IF idx > Len(rows) THEN points
    ELSE LET r == rows[idx]
         IN  IF r.timestamp = None \/ r[indicator] = None
             THEN PointLoopKeepNaN(rows, indicator, idx + 1, points)
             ELSE PointLoopKeepNaN(rows, indicator, idx + 1, Append(points,
                     [time |-> TruncDiv(r.timestamp[1], 1000),
                      value |-> r[indicator][1]]))

\* for idx in 0..df.height() of map_dataframe_to_series, for one indicator
RECURSIVE PointLoop(_, _, _, _)
PointLoop(rows, indicator, idx, points) ==
    IF idx > Len(rows) THEN points
    ELSE LET r == rows[idx]
         IN  IF r.timestamp = None THEN PointLoop(rows, indicator, idx + 1, points)
             ELSE IF r[indicator] = None
                  THEN PointLoop(rows, indicator, idx + 1, points)
                  ELSE IF is_nan(r[indicator][1])
                       THEN PointLoop(rows, indicator, idx + 1, points)
                       ELSE PointLoop(rows, indicator, idx + 1, Append(points,
                               [time |-> TruncDiv(r.timestamp[1], 1000),
                                value |-> r[indicator][1]]))

\* indicator.starts_with("rsi") / starts_with("atr")
Pane(indicator) ==
    IF indicator \in {"rsi_14_ema", "rsi_14_wilder"} THEN "rsi"
    ELSE IF indicator = "atr_14" THEN "atr"
    ELSE "price"

\* indicator.replace('_', " ").to_uppercase()
Name(indicator) ==
    CASE indicator = "vwap" -> "VWAP"
      [] indicator = "vwapn" -> "VWAPN"
      [] indicator = "vwapd" -> "VWAPD"
      [] indicator = "ema_9" -> "EMA 9"
      [] indicator = "ema_14" -> "EMA 14"
      [] indicator = "ema_21" -> "EMA 21"
      [] indicator = "rsi_14_ema" -> "RSI 14 EMA"
      [] indicator = "rsi_14_wilder" -> "RSI 14 WILDER"
      [] indicator = "atr_14" -> "ATR 14"

\* for indicator in INDICATOR_COLUMNS
RECURSIVE SeriesLoop(_, _, _)
SeriesLoop(df, k, series) ==
    IF k > Len(INDICATOR_COLUMNS) THEN series
    ELSE LET indicator == INDICATOR_COLUMNS[k]
         IN  IF indicator \notin Range(df.columns)
             THEN SeriesLoop(df, k + 1, series)
             ELSE SeriesLoop(df, k + 1, Append(series,
                     [id |-> indicator, name |-> Name(indicator), kind |-> "line",
                      pane |-> Pane(indicator),
                      data |-> PointLoop(df.rows, indicator, 1, <<>>)]))

\* Variant of map_dataframe_to_series: one series per indicator column in
\* the order the source file lays its columns out, not in catalog order.
MapSeriesDiscoveryOrder(df) ==
    LET found == SelectSeq(source.columns,
                           LAMBDA c : c \in Range(INDICATOR_COLUMNS) \cap Range(df.columns))
    IN  Ok([k \in 1..Len(found) |->
               [id |-> found[k], name |-> Name(found[k]), kind |-> "line",
                pane |-> Pane(found[k]),
                data |-> PointLoop(df.rows, found[k], 1, <<>>)]])

map_dataframe_to_series(df) ==
    IF "timestamp" \notin Range(df.columns)
    THEN Err("Missing timestamp column")
    ELSE Ok(SeriesLoop(df, 1, <<>>))

---------------------------------------------------------------------------
\* The two queries. Each yields the set of its outcomes [result, accesses]:
\* the Result returned and the data accesses made on the way.

load_bars(src, contract, start, end) ==
    LET start_time == parse_start_date(start)
        end_time == parse_end_date(end)
        query == base_query(src)
    IN  IF ~start_time.ok THEN {[result |-> start_time, accesses |-> <<>>]}
        ELSE IF ~end_time.ok THEN {[result |-> end_time, accesses |-> <<>>]}
        ELSE IF ~query.ok
             THEN {[result |-> query, accesses |-> base_query_accesses(src)]}
             ELSE {[result |-> IF df.ok THEN map_dataframe_to_candles(df.val) ELSE df,
                    accesses |-> Append(base_query_accesses(src), "collect")] :
                     df \in Collect(query.val, contract, start_time.val,
                                    end_time.val, BAR_COLUMNS, LoadBarsFailedMsg)}

load_series(src, contract, start, end) ==
    LET start_time == parse_start_date(start)
        end_time == parse_end_date(end)
        query == base_query(src)
    IN  IF ~start_time.ok THEN {[result |-> start_time, accesses |-> <<>>]}
        ELSE IF ~end_time.ok THEN {[result |-> end_time, accesses |-> <<>>]}
        ELSE IF ~query.ok
             THEN {[result |-> query, accesses |-> base_query_accesses(src)]}
             ELSE {[result |-> IF df.ok THEN map_dataframe_to_series(df.val) ELSE df,
                    accesses |-> Append(base_query_accesses(src), "collect")] :
                     df \in Collect(query.val, contract, start_time.val,
                                    end_time.val, select_exprs, LoadSeriesFailedMsg)}

---------------------------------------------------------------------------
\* Sources and requests the model draws from.

MaxRows == 2

\* Physical column layouts of the source file.
FullSchema ==
    <<"timestamp", "contract", "open", "high", "low", "close">> \o INDICATOR_COLUMNS

ShuffledSchema ==
    << "atr_14", "close", "rsi_14_wilder", "contract", "ema_21", "vwapd", "low",
       "rsi_14_ema", "ema_9", "timestamp", "vwapn", "high", "ema_14", "open", "vwap" >>

NoAtrSchema ==
    << "timestamp", "contract", "open", "high", "low", "close",
       "vwap", "vwapn", "vwapd", "ema_9", "ema_14", "ema_21",
       "rsi_14_ema", "rsi_14_wilder" >>

Index(s, x) == CHOOSE i \in 1..Len(s) : s[i] = x

BasePrice(contract) == IF contract = "ES" THEN 10 ELSE 20

\* A source row over the columns of schema: timestamp ts, contract, the four
\* prices and one value per indicator column. flaw names the price that is
\* null (flaw.price) and the indicator column (flaw.col) that is null or NaN
\* (flaw.kind); "none" names none.
MkRow(schema, ts, contract, flaw) ==
    [c \in Range(schema) |->
        CASE c = "timestamp" -> ts
          [] c = "contract" -> contract
          [] c = "open" ->
                IF flaw.price = c THEN None ELSE Some(F(BasePrice(contract)))
          [] c = "high" ->
                IF flaw.price = c THEN None ELSE Some(F(BasePrice(contract) + 2))
          [] c = "low" ->
                IF flaw.price = c THEN None ELSE Some(F(BasePrice(contract) - 1))
          [] c = "close" ->
                IF flaw.price = c THEN None ELSE Some(F(BasePrice(contract) + 1))
          [] OTHER ->
                IF flaw.col = c
                THEN (IF flaw.kind = "null" THEN None ELSE Some(NaN))
                ELSE Some(F(10 * BasePrice(contract) + Index(INDICATOR_COLUMNS, c)))]

Flaw(price, kind, col) == [price |-> price, kind |-> kind, col |-> col]
NoFlaw == Flaw("none", "none", "none")

SeqsUpTo(S, n) == UNION {[1..k -> S] : k \in 0..n}

MissingSource == [exists |-> FALSE, columns |-> <<>>, rows |-> <<>>]

\* The sources with one of the schemas and up to MaxRows rows, in any
\* physical order, drawn from the given timestamps, contracts and flaws.
Sources(schemas, timestamps, contracts, flaws) ==
    UNION {{[exists |-> TRUE, columns |-> schema, rows |-> rows] :
                rows \in SeqsUpTo({MkRow(schema, ts, c, f) :
                                      ts \in timestamps, c \in contracts,
                                      f \in flaws}, MaxRows)} :
           schema \in schemas}

\* Date strings, as sequences of characters.
D1970_01_01 == <<"1", "9", "7", "0", "-", "0", "1", "-", "0", "1">>
D1970_01_02 == <<"1", "9", "7", "0", "-", "0", "1", "-", "0", "2">>
D1969_12_31 == <<"1", "9", "6", "9", "-", "1", "2", "-", "3", "1">>
DSlashes == <<"0", "1", "/", "0", "2", "/", "1", "9", "7", "0">>
DFeb30 == <<"1", "9", "7", "0", "-", "0", "2", "-", "3", "0">>
DOneDigit == <<"1", "9", "7", "0", "-", "1", "-", "2">>
DTrailing == <<"1", "9", "7", "0", "-", "0", "1", "-", "0", "1", "T">>
DEmpty == <<>>

\* The requests: every combination of the contracts and the date strings.
Requests(contracts, dates) ==
    {[contract |-> c, start |-> s, end |-> e] :
        c \in contracts, s \in dates, e \in dates}

---------------------------------------------------------------------------
\* The state machine. The source file and the request (contract, start, end)
\* are the inputs; each step runs one of the two queries on them. call names
\* the query that ran last, result its Result, accesses the data accesses it
\* made, and prev the Result of the run before it when that was the same
\* query (the same request against the unchanged source).

NoResult == [ok |-> FALSE, val |-> <<>>, err |-> "no call"]

InitOver(sources, requests) ==
    /\ source \in sources
    /\ request \in requests
    /\ call = "none"
    /\ result = NoResult
    /\ prev = NoResult
    /\ accesses = <<>>

LoadBars ==
    \E out \in load_bars(source, request.contract, request.start, request.end) :
        /\ call' = "load_bars"
        /\ prev' = IF call = "load_bars" THEN result ELSE NoResult
        /\ result' = out.result
        /\ accesses' = out.accesses
        /\ UNCHANGED <<source, request>>

LoadSeries ==
    \E out \in load_series(source, request.contract, request.start, request.end) :
        /\ call' = "load_series"
        /\ prev' = IF call = "load_series" THEN result ELSE NoResult
        /\ result' = out.result
        /\ accesses' = out.accesses
        /\ UNCHANGED <<source, request>>

\* Both queries against sources with unordered rows, equal timestamps, null
\* timestamps, null prices and NaN indicator values.
Init ==
    InitOver({MissingSource} \cup
             Sources({FullSchema}, {None, Some(-1500), Some(500)}, {"ES", "NQ"},
                     {NoFlaw, Flaw("open", "nan", "vwap")}),
             Requests({None, Some("ES")}, {None, Some(D1970_01_01)}))

Next == LoadBars \/ LoadSeries

Spec == Init /\ [][Next]_vars

\* load_bars against sources whose timestamps lie around the bounds of the
\* date window (negative, inside a second, inside the last second of a day,
\* at the next midnight) and against sources with null prices.
InitBars ==
    InitOver({MissingSource}
             \cup Sources({FullSchema},
                          {None, Some(-1500), Some(500),
                           Some(86399500), Some(86400000)},
                          {"ES", "NQ"}, {NoFlaw})
             \cup Sources({FullSchema}, {None, Some(500)}, {"ES"},
                          {NoFlaw, Flaw("open", "none", "none"),
                           Flaw("high", "none", "none"), Flaw("low", "none", "none"),
                           Flaw("close", "none", "none")}),
             Requests({None, Some("ES")},
                      {None, Some(D1969_12_31), Some(D1970_01_01)}))

NextBars == LoadBars

SpecBars == InitBars /\ [][NextBars]_vars

\* load_series against sources of several physical column layouts, some of
\* them lacking catalog columns, with null and NaN indicator values.
InitSeries ==
    InitOver({MissingSource}
             \cup Sources({ShuffledSchema, NoAtrSchema},
                          {None, Some(-1500), Some(500)}, {"ES", "NQ"},
                          {NoFlaw, Flaw("none", "nan", "vwap"),
                           Flaw("none", "null", "ema_9")})
             \cup Sources({FullSchema}, {None, Some(500)}, {"ES"},
                          {NoFlaw, Flaw("none", "nan", "vwap"),
                           Flaw("none", "null", "ema_9")}),
             Requests({None, Some("ES")}, {None, Some(D1970_01_01)}))

NextSeries == LoadSeries

SpecSeries == InitSeries /\ [][NextSeries]_vars

\* The source holds one row per contract and timestamp.
UniqueKeys(src) ==
    \A i, j \in 1..Len(src.rows) :
        i # j => <<src.rows[i].contract, src.rows[i].timestamp>>
                    # <<src.rows[j].contract, src.rows[j].timestamp>>

\* Both queries against sources with one row per contract and timestamp:
\* rows of two contracts at one timestamp, rows within one second.
InitKeyed ==
    InitOver({src \in Sources({FullSchema},
                              {None, Some(-1500), Some(500), Some(999)},
                              {"ES", "NQ"}, {NoFlaw}) : UniqueKeys(src)},
             Requests({None, Some("ES")}, {None, Some(D1970_01_01)}))

SpecKeyed == InitKeyed /\ [][Next]_vars

\* Both queries with well-formed and malformed date strings, against a
\* missing source and against present ones.
InitDates ==
    InitOver({MissingSource}
             \cup Sources({FullSchema}, {Some(500)}, {"ES"}, {NoFlaw}),
             Requests({None, Some("ES"), Some("NQ")},
                      {None, Some(D1970_01_01), Some(D1970_01_02), Some(D1969_12_31),
                       Some(DSlashes), Some(DFeb30), Some(DOneDigit),
                       Some(DTrailing), Some(DEmpty)}))

SpecDates == InitDates /\ [][Next]_vars

---------------------------------------------------------------------------
\* What the claims are stated with.

\* The days since 1970-01-01 of the well-formed dates of the requests.
EpochDay(date) ==
    CASE date = D1969_12_31 -> -1
      [] date = D1970_01_01 -> 0
      [] date = D1970_01_02 -> 1

\* Epoch second of 00:00:00 UTC and of 23:59:59 UTC on the date.
StartBound(date) == EpochDay(date) * 86400
EndBound(date) == EpochDay(date) * 86400 + 86399

\* The literal pattern YYYY-MM-DD: four digits, two digits, two digits,
\* hyphen-separated, nothing else, and a date of the calendar.
StrictYMD(s) ==
    /\ Len(s) = 10
    /\ \A i \in {1, 2, 3, 4, 6, 7, 9, 10} : s[i] \in Digits
    /\ s[5] = "-" /\ s[8] = "-"
    /\ LET y == 1000 * DigitVal(s[1]) + 100 * DigitVal(s[2])
                    + 10 * DigitVal(s[3]) + DigitVal(s[4])
           m == 10 * DigitVal(s[6]) + DigitVal(s[7])
           d == 10 * DigitVal(s[9]) + DigitVal(s[10])
       IN  m \in 1..12 /\ d \in 1..DaysInMonth(y, m)

BadDate(arg) == arg # None /\ ~StrictYMD(arg[1])

Count(seq, x) == Cardinality({i \in 1..Len(seq) : seq[i] = x})

SortedByTime(seq) == \A i \in 1..Len(seq) - 1 : seq[i].time <= seq[i + 1].time

\* The row passes the request's contract filter.
MatchesContract(r) == request.contract = None \/ r.contract = request.contract[1]

\* The row passes the request's timestamp filters, compared in milliseconds.
InsideWindowMs(r) ==
    /\ request.start # None =>
          r.timestamp # None /\ r.timestamp[1] >= StartBound(request.start[1]) * 1000
    /\ request.end # None =>
          r.timestamp # None /\ r.timestamp[1] <= EndBound(request.end[1]) * 1000

\* The row's epoch second lies in the request's window of whole seconds.
InsideWindowSeconds(r) ==
    /\ r.timestamp # None
    /\ request.start # None =>
          TruncDiv(r.timestamp[1], 1000) >= StartBound(request.start[1])
    /\ request.end # None =>
          TruncDiv(r.timestamp[1], 1000) <= EndBound(request.end[1])

CompleteBar(r) ==
    /\ r.timestamp # None
    /\ r.open # None /\ r.high # None /\ r.low # None /\ r.close # None

CandleOf(r) ==
    [time |-> TruncDiv(r.timestamp[1], 1000), open |-> r.open[1],
     high |-> r.high[1], low |-> r.low[1], close |-> r.close[1]]

HasValue(r, col) == r.timestamp # None /\ r[col] # None /\ ~r[col][1].nan

PointOf(r, col) == [time |-> TruncDiv(r.timestamp[1], 1000), value |-> r[col][1]]

BarsOk == call = "load_bars" /\ result.ok
SeriesOk == call = "load_series" /\ result.ok

---------------------------------------------------------------------------
\* C1: for load_bars and load_series, a start or end that is present and is
\* not a valid YYYY-MM-DD date makes the call return the error that names
\* YYYY-MM-DD, with no access to the data source, whatever the contract and
\* whether or not the source file exists.
C1_BadDateShortCircuits ==
    (call # "none" /\ (BadDate(request.start) \/ BadDate(request.end)))
        => /\ ~result.ok
           /\ result.err = InvalidDateMsg
           /\ accesses = <<>>

\* C2: load_series against a source that has the timestamp column but lacks
\* catalog columns succeeds and returns exactly one series per catalog column
\* the source has, so fewer series than the catalog has columns.
C2_AbsentColumnsOmitted ==
    ( /\ call = "load_series"
      /\ source.exists
      /\ {"timestamp", "contract"} \subseteq Range(source.columns)
      /\ ~(Range(INDICATOR_COLUMNS) \subseteq Range(source.columns))
      /\ ~BadDate(request.start) /\ ~BadDate(request.end) )
        => /\ result.ok
           /\ [k \in 1..Len(result.val) |-> result.val[k].id]
                 = SelectSeq(INDICATOR_COLUMNS, LAMBDA c : c \in Range(source.columns))
           /\ Len(result.val) < Len(INDICATOR_COLUMNS)

\* C3: every candle load_bars returns has time >= the start bound when start
\* is given and time <= the end bound when end is given, each bound on its
\* own, also for timestamps that are negative or no multiple of 1000.
C3_CandlesWithinBounds ==
    BarsOk =>
        \A i \in 1..Len(result.val) :
            /\ request.start # None =>
                  result.val[i].time >= StartBound(request.start[1])
            /\ request.end # None =>
                  result.val[i].time <= EndBound(request.end[1])

\* A window from 1969-12-31 to 1970-01-01 that returns the candle of the
\* row at -1500 ms (second -1) and leaves a row of the source out.
C3_Witness ==
    /\ BarsOk
    /\ request.start = Some(D1969_12_31) /\ request.end = Some(D1970_01_01)
    /\ \E i \in 1..Len(result.val) : result.val[i].time = -1
    /\ \E j \in 1..Len(source.rows) : source.rows[j].timestamp = Some(86400000)
    /\ Len(result.val) < Len(source.rows)

\* C4: the candles of load_bars, and the points of every series of
\* load_series, are non-decreasing in time, whatever the physical row order
\* and whatever rows are skipped.
C4_SortedAscending ==
    /\ BarsOk => SortedByTime(result.val)
    /\ SeriesOk => \A k \in 1..Len(result.val) : SortedByTime(result.val[k].data)

\* Two rows stored in descending timestamp order, one of them with a NaN:
\* a series with both points and a series with one.
C4_Witness ==
    /\ SeriesOk
    /\ Len(source.rows) = 2
    /\ source.rows[1].timestamp = Some(500) /\ source.rows[2].timestamp = Some(-1500)
    /\ \E k \in 1..Len(result.val) : Len(result.val[k].data) = 2
    /\ \E k \in 1..Len(result.val) : Len(result.val[k].data) = 1

\* C5: no two candles of a load_bars response have the same time.
C5_NoDuplicateTimes ==
    BarsOk =>
        \A i, j \in 1..Len(result.val) :
            i # j => result.val[i].time # result.val[j].time

\* C6: the data of every series load_series returns holds exactly one point
\* {time = timestamp_ms / 1000, value} per filtered row whose timestamp and
\* value in that column are non-null and whose value is not NaN, and no other
\* point.
C6_PointsExactlyTheValues ==
    SeriesOk =>
        \A k \in 1..Len(result.val) :
            LET col == result.val[k].id
                data == result.val[k].data
                rows == source.rows
                kept == {j \in 1..Len(rows) :
                            /\ MatchesContract(rows[j]) /\ InsideWindowMs(rows[j])
                            /\ HasValue(rows[j], col)}
            IN  /\ Len(data) = Cardinality(kept)
                /\ \A i \in 1..Len(data) : ~data[i].value.nan
                /\ \A j \in kept :
                      Count(data, PointOf(rows[j], col))
                          = Cardinality({h \in kept :
                                PointOf(rows[h], col) = PointOf(rows[j], col)})

\* Two rows, one with a NaN vwap and one with a null ema_9: each of the two
\* series has the other row's point, and vwapn has both.
C6_Witness ==
    /\ SeriesOk
    /\ \E j \in 1..Len(source.rows) : source.rows[j].vwap = Some(NaN)
    /\ \E j \in 1..Len(source.rows) : source.rows[j].ema_9 = None
    /\ \E k \in 1..Len(result.val) :
          result.val[k].id = "vwap" /\ Len(result.val[k].data) = 1
    /\ \E k \in 1..Len(result.val) :
          result.val[k].id = "ema_9" /\ Len(result.val[k].data) = 1
    /\ \E k \in 1..Len(result.val) :
          result.val[k].id = "vwapn" /\ Len(result.val[k].data) = 2

\* C7: load_bars returns exactly one candle per row that passes the contract
\* and timestamp filters and has a non-null timestamp, open, high, low and
\* close, with time = timestamp_ms / 1000 and the prices unchanged, and no
\* candle for any other row; with no contract and no dates, against a source
\* that holds such a row, the list is not empty.
C7_OneCandlePerCompleteRow ==
    /\ BarsOk =>
          LET rows == source.rows
              kept == {j \in 1..Len(rows) :
                          /\ MatchesContract(rows[j]) /\ InsideWindowMs(rows[j])
                          /\ CompleteBar(rows[j])}
          IN  /\ Len(result.val) = Cardinality(kept)
              /\ \A j \in kept :
                    Count(result.val, CandleOf(rows[j]))
                        = Cardinality({h \in kept : CandleOf(rows[h]) = CandleOf(rows[j])})
    /\ ( /\ call = "load_bars"
         /\ source.exists
         /\ request = [contract |-> None, start |-> None, end |-> None]
         /\ \E j \in 1..Len(source.rows) : CompleteBar(source.rows[j]) )
          => result.ok /\ Len(result.val) > 0

\* Two rows, one of them with a null open: load_bars(None, None, None)
\* returns the one candle of the other row.
C7_Witness ==
    /\ BarsOk
    /\ request = [contract |-> None, start |-> None, end |-> None]
    /\ Len(source.rows) = 2
    /\ \E j \in 1..2 : source.rows[j].open = None /\ source.rows[j].timestamp # None
    /\ Len(result.val) = 1

C9_CatalogOrder ==
    SeriesOk =>
        LET order == << "vwap", "vwapn", "vwapd", "ema_9", "ema_14", "ema_21",
                        "rsi_14_ema", "rsi_14_wilder", "atr_14" >>
        IN  /\ \A k \in 1..Len(result.val) : result.val[k].id \in Range(order)
            /\ \A i, j \in 1..Len(result.val) :
                  i < j => Index(order, result.val[i].id) < Index(order, result.val[j].id)

\* A source whose columns lie in another order than the catalog's, with all
\* nine series returned.
C9_Witness ==
    /\ SeriesOk
    /\ source.columns = ShuffledSchema
    /\ Len(source.rows) > 0
    /\ Len(result.val) = 9

\* C10: with bounds given, load_bars returns the candle of every row that
\* matches the contract filter, has a non-null timestamp and prices, and
\* whose epoch second timestamp_ms / 1000 lies between the start bound and
\* the end bound, the last second of the end day included whole.
C10_WholeSecondsIncluded ==
    BarsOk =>
        \A j \in 1..Len(source.rows) :
            LET r == source.rows[j]
            IN  ( /\ MatchesContract(r) /\ CompleteBar(r)
                  /\ InsideWindowSeconds(r) )
                    => \E i \in 1..Len(result.val) : result.val[i] = CandleOf(r)

=============================================================================
